---- MODULE Spec2Model ----
(***************************************************************************)
(* Model of app.py: the Connect Four websocket session broker.             *)
(*                                                                         *)
(* One task per connection runs handler(); the tasks share the JOIN and    *)
(* WATCH tables and, per session, one Connect4 engine and one set of       *)
(* connections.  Tasks are cooperative: a task runs without interruption   *)
(* up to its next await (recv, send, wait_closed), so every action below   *)
(* is the code between two awaits.  A send writes its frame before it can  *)
(* suspend, so its effect on the receiver's stream belongs to the action   *)
(* that issues it.                                                         *)
(***************************************************************************)
EXTENDS Integers, Sequences, FiniteSets, TLC

\* ---- bounds of the model ----
NConn == 3          \* connections that ever reach the server
MaxSessions == 1    \* sessions that are ever started
MaxRejected == 1    \* move requests the engine rejects, in total
Columns == 2        \* board width
Rows == 2           \* board height
WinLen == 2         \* stones in a line that win
MaxUnread == 1      \* messages a spectator sends, per spectator

Conns == 1..NConn
Cols == 0..(Columns - 1)

None == "None"
PLAYER1 == "red"
PLAYER2 == "yellow"

\* secrets.token_urlsafe(): a fresh key, never equal to another one.  The key
\* generated by the task of connection c is named after c.
JoinKey(c) == <<"join", c>>
WatchKey(c) == <<"watch", c>>
\* A key the server never hands out
Bogus == <<"bogus", 0>>

VARIABLES
    JOIN,       \* join key -> session (a session is named by its creator)
    WATCH,      \* watch key -> session
    game,       \* session -> Connect4 object
    connected,  \* session -> set of websockets
    pc,         \* connection -> the await its task is suspended in
    open,       \* connection -> its websocket is in state OPEN
    event,      \* connection -> the first message, as parsed by handler
    player,     \* connection -> the player argument of its play() loop
    session,    \* connection -> the session its task holds (game, connected)
    history,    \* spectator -> the copy of game.moves handed to replay
    sent,       \* spectator -> number of moves of history already sent
    inbox,      \* connection -> the events written to its websocket, in order
    attached,   \* connection -> Len(game.moves) when it entered connected
    rejected,   \* number of rejected move requests so far
    unread,     \* connection -> inbound messages its task never reads
    raised      \* connection -> the exception a message raised in its task

vars == <<JOIN, WATCH, game, connected, pc, open, event, player, session,
          history, sent, inbox, attached, rejected, unread, raised>>

\* ---- the Connect4 engine (connect4.py) ----

NewGame == [moves |-> <<>>, top |-> [col \in Cols |-> 0], winner |-> None]

last_player(g) == IF Len(g.moves) % 2 = 1 THEN PLAYER1 ELSE PLAYER2

Cells(moves, p) == {<<moves[i][2], moves[i][3]>> : i \in {j \in 1..Len(moves) : moves[j][1] = p}}

Directions == {<<1, 0>>, <<0, 1>>, <<1, 1>>, <<1, -1>>}

HasLine(cells) ==
    \E cell \in cells : \E d \in Directions :
        \A i \in 0..(WinLen - 1) : <<cell[1] + i * d[1], cell[2] + i * d[2]>> \in cells

\* game.play(player, column): [ok |-> FALSE, message] when it raises
\* RuntimeError, else [ok |-> TRUE, row, game] with the engine after the move.
EnginePlay(g, p, column) ==
    IF g.winner # None THEN [ok |-> FALSE, message |-> "The game is over."]
    ELSE IF p = last_player(g) THEN [ok |-> FALSE, message |-> "It isn't your turn."]
    ELSE IF column \notin Cols THEN [ok |-> FALSE, message |-> "Column out of bounds."]
    ELSE IF g.top[column] = Rows THEN [ok |-> FALSE, message |-> "This slot is full."]
    ELSE LET row == g.top[column]
             moves == Append(g.moves, <<p, column, row>>)
         IN [ok |-> TRUE, row |-> row,
             game |-> [moves |-> moves,
                       top |-> [g.top EXCEPT ![column] = row + 1],
                       winner |-> IF HasLine(Cells(moves, p)) THEN p ELSE None]]

\* ---- events ----

InitEvent(c) == [type |-> "init", join |-> JoinKey(c), watch |-> WatchKey(c)]
ErrorEvent(message) == [type |-> "error", message |-> message]
\* via: "live" for the broadcast of play(), "replay" for the send of replay()
PlayEvent(p, column, row, via) ==
    [type |-> "play", player |-> p, column |-> column, row |-> row, via |-> via]
WinEvent(p) == [type |-> "win", player |-> p, via |-> "live"]

\* await websocket.send(e): append e to the stream of websocket c
Send(box, c, e) == [box EXCEPT ![c] = Append(@, e)]

error_twice(box, c, message) ==
    Send(Send(box, c, ErrorEvent(message)), c, ErrorEvent(message))

\* error(websocket, message)
error(box, c, message) == Send(box, c, ErrorEvent(message))

MoveEvent_always_play(g, p, column, row) == PlayEvent(p, column, row, "live")

\* the event play() broadcasts after a move that left the engine in state g
MoveEvent(g, p, column, row) ==
    IF g.winner = None THEN PlayEvent(p, column, row, "live") ELSE WinEvent(g.winner)

\* a broadcast that puts the event in front of what the member was sent before
Broadcast_reordered(box, group, e) ==
    [c \in Conns |-> IF c \in group /\ open[c] THEN <<e>> \o box[c] ELSE box[c]]

\* a broadcast that gives up when a member of the group is not open
Broadcast_aborts(box, group, e) ==
    IF \E c \in group : ~open[c]
    THEN box
    ELSE [c \in Conns |-> IF c \in group THEN Append(box[c], e) ELSE box[c]]

\* websockets.broadcast(group, e): write e to every websocket of the group that
\* is in state OPEN, skip the others
Broadcast(box, group, e) ==
    [c \in Conns |-> IF c \in group /\ open[c] THEN Append(box[c], e) ELSE box[c]]

\* Keys a client may present in its first message: the keys handed out so far
\* (in the tables or not any more) and one that was never handed out.
Keys == {JoinKey(s) : s \in DOMAIN game} \cup {WatchKey(s) : s \in DOMAIN game} \cup {Bogus}

\* Connections are numbered in the order in which handler returns from its
\* first recv: c is the next one to do so.
Next_recv(c) == pc[c] = "recv" /\ \A d \in Conns : d < c => pc[d] # "recv"

\* ---- Init: the server is up, no connection has sent its first message ----

Init ==
    /\ JOIN = <<>>
    /\ WATCH = <<>>
    /\ game = <<>>
    /\ connected = <<>>
    /\ pc = [c \in Conns |-> "recv"]
    /\ open = [c \in Conns |-> TRUE]
    /\ event = [c \in Conns |-> <<>>]
    /\ player = [c \in Conns |-> None]
    /\ session = [c \in Conns |-> 0]
    /\ history = [c \in Conns |-> <<>>]
    /\ sent = [c \in Conns |-> 0]
    /\ inbox = [c \in Conns |-> <<>>]
    /\ attached = [c \in Conns |-> 0]
    /\ rejected = 0
    /\ unread = [c \in Conns |-> 0]
    /\ raised = [c \in Conns |-> None]

\* ---- handler: first message without "join" or "watch" -> start ----

start(c) ==
    /\ Next_recv(c)
    /\ Cardinality(DOMAIN WATCH) < MaxSessions
    /\ event' = [event EXCEPT ![c] = [type |-> "init"]]
    /\ game' = (c :> NewGame) @@ game
    /\ connected' = (c :> {c}) @@ connected
    /\ JOIN' = (JoinKey(c) :> c) @@ JOIN
    /\ WATCH' = (WatchKey(c) :> c) @@ WATCH
    /\ inbox' = Send(inbox, c, InitEvent(c))
    /\ player' = [player EXCEPT ![c] = PLAYER1]
    /\ session' = [session EXCEPT ![c] = c]
    /\ pc' = [pc EXCEPT ![c] = "play"]
    /\ UNCHANGED <<open, history, sent, attached, rejected>>
    /\ UNCHANGED <<unread, raised>>

\* a start whose finally leaves the join key in JOIN
start_finally_keeps_key(c) ==
    /\ pc[c] = "play" /\ player[c] = PLAYER1 /\ ~open[c]
    /\ pc' = [pc EXCEPT ![c] = "done"]
    /\ UNCHANGED <<JOIN, WATCH, game, connected, open, event, player, session,
                   history, sent, inbox, attached, rejected>>
    /\ UNCHANGED <<unread, raised>>

\* a start whose finally also deletes the watch key
start_finally_tears_down(c) ==
    /\ pc[c] = "play" /\ player[c] = PLAYER1 /\ ~open[c]
    /\ JOIN' = [k \in DOMAIN JOIN \ {JoinKey(c)} |-> JOIN[k]]
    /\ WATCH' = [k \in DOMAIN WATCH \ {WatchKey(c)} |-> WATCH[k]]
    /\ pc' = [pc EXCEPT ![c] = "done"]
    /\ UNCHANGED <<game, connected, open, event, player, session,
                   history, sent, inbox, attached, rejected>>
    /\ UNCHANGED <<unread, raised>>

\* start's finally, reached when the play loop of the creator ends
start_finally(c) ==
    /\ pc[c] = "play" /\ player[c] = PLAYER1 /\ ~open[c]
    /\ JOIN' = [k \in DOMAIN JOIN \ {JoinKey(c)} |-> JOIN[k]]
    /\ pc' = [pc EXCEPT ![c] = "done"]
    /\ UNCHANGED <<WATCH, game, connected, open, event, player, session,
                   history, sent, inbox, attached, rejected>>
    /\ UNCHANGED <<unread, raised>>

\* ---- handler: first message with "join" ----

\* a join that consumes the key: the first join removes it from JOIN
join_single_use(c, join_key) ==
    /\ Next_recv(c)
    /\ event' = [event EXCEPT ![c] = [type |-> "init", join |-> join_key]]
    /\ IF join_key \in DOMAIN JOIN
       THEN /\ connected' = [connected EXCEPT ![JOIN[join_key]] = @ \cup {c}]
            /\ session' = [session EXCEPT ![c] = JOIN[join_key]]
            /\ attached' = [attached EXCEPT ![c] = Len(game[JOIN[join_key]].moves)]
            /\ player' = [player EXCEPT ![c] = PLAYER2]
            /\ pc' = [pc EXCEPT ![c] = "play"]
            /\ JOIN' = [k \in DOMAIN JOIN \ {join_key} |-> JOIN[k]]
            /\ UNCHANGED <<inbox, open>>
       ELSE /\ inbox' = error(inbox, c, "Game not found.")
            /\ pc' = [pc EXCEPT ![c] = "done"]
            /\ open' = [open EXCEPT ![c] = FALSE]
            /\ UNCHANGED <<JOIN, connected, session, attached, player>>
    /\ UNCHANGED <<WATCH, game, history, sent, rejected>>
    /\ UNCHANGED <<unread, raised>>

join(c, join_key) ==
    /\ Next_recv(c)
    /\ event' = [event EXCEPT ![c] = [type |-> "init", join |-> join_key]]
    /\ IF join_key \in DOMAIN JOIN
       THEN /\ connected' = [connected EXCEPT ![JOIN[join_key]] = @ \cup {c}]
            /\ session' = [session EXCEPT ![c] = JOIN[join_key]]
            /\ attached' = [attached EXCEPT ![c] = Len(game[JOIN[join_key]].moves)]
            /\ player' = [player EXCEPT ![c] = PLAYER2]
            /\ pc' = [pc EXCEPT ![c] = "play"]
            /\ UNCHANGED <<inbox, open>>
       ELSE /\ inbox' = error(inbox, c, "Game not found.")
            /\ pc' = [pc EXCEPT ![c] = "done"]
            /\ open' = [open EXCEPT ![c] = FALSE]
            /\ UNCHANGED <<connected, session, attached, player>>
    /\ UNCHANGED <<JOIN, WATCH, game, history, sent, rejected>>
    /\ UNCHANGED <<unread, raised>>

\* join's finally, reached when the play loop of a second player ends
join_finally(c) ==
    /\ pc[c] = "play" /\ player[c] = PLAYER2 /\ ~open[c]
    /\ connected' = [connected EXCEPT ![session[c]] = @ \ {c}]
    /\ pc' = [pc EXCEPT ![c] = "done"]
    /\ UNCHANGED <<JOIN, WATCH, game, open, event, player, session,
                   history, sent, inbox, attached, rejected>>
    /\ UNCHANGED <<unread, raised>>

\* ---- handler: first message with "watch" ----

\* watch up to its first await: the lookup, connected.add, game.moves.copy()
\* and the first send of replay, which writes its frame before it suspends
watch(c, watch_key) ==
    /\ Next_recv(c)
    /\ event' = [event EXCEPT ![c] = [type |-> "init", watch |-> watch_key]]
    /\ IF watch_key \in DOMAIN WATCH
       THEN LET s == WATCH[watch_key]
                moves == game[s].moves
            IN /\ connected' = [connected EXCEPT ![s] = @ \cup {c}]
               /\ session' = [session EXCEPT ![c] = s]
               /\ attached' = [attached EXCEPT ![c] = Len(moves)]
               /\ history' = [history EXCEPT ![c] = moves]
               /\ IF moves = <<>>
                  THEN /\ pc' = [pc EXCEPT ![c] = "wait_closed"]
                       /\ UNCHANGED <<inbox, sent>>
                  ELSE /\ inbox' = Send(inbox, c, PlayEvent(moves[1][1], moves[1][2], moves[1][3], "replay"))
                       /\ sent' = [sent EXCEPT ![c] = 1]
                       /\ pc' = [pc EXCEPT ![c] = "replay"]
               /\ UNCHANGED open
       ELSE /\ inbox' = error(inbox, c, "Game not found.")
            /\ pc' = [pc EXCEPT ![c] = "done"]
            /\ open' = [open EXCEPT ![c] = FALSE]
            /\ UNCHANGED <<connected, session, attached, history, sent>>
    /\ UNCHANGED <<JOIN, WATCH, game, player, rejected>>
    /\ UNCHANGED <<unread, raised>>

\* a replay that iterates over game.moves itself instead of the copy
replay_alias(c) ==
    /\ pc[c] = "replay" /\ open[c]
    /\ IF sent[c] < Len(game[session[c]].moves)
       THEN LET move == game[session[c]].moves[sent[c] + 1]
            IN /\ inbox' = Send(inbox, c, PlayEvent(move[1], move[2], move[3], "replay"))
               /\ sent' = [sent EXCEPT ![c] = @ + 1]
               /\ UNCHANGED pc
       ELSE /\ pc' = [pc EXCEPT ![c] = "wait_closed"]
            /\ UNCHANGED <<inbox, sent>>
    /\ UNCHANGED <<JOIN, WATCH, game, connected, open, event, player, session,
                   history, attached, rejected>>
    /\ UNCHANGED <<unread, raised>>

\* a replay that leaves out the last move of the history
replay_drops_last(c) ==
    /\ pc[c] = "replay" /\ open[c]
    /\ IF sent[c] < Len(history[c]) - 1
       THEN LET move == history[c][sent[c] + 1]
            IN /\ inbox' = Send(inbox, c, PlayEvent(move[1], move[2], move[3], "replay"))
               /\ sent' = [sent EXCEPT ![c] = @ + 1]
               /\ UNCHANGED pc
       ELSE /\ pc' = [pc EXCEPT ![c] = "wait_closed"]
            /\ UNCHANGED <<inbox, sent>>
    /\ UNCHANGED <<JOIN, WATCH, game, connected, open, event, player, session,
                   history, attached, rejected>>
    /\ UNCHANGED <<unread, raised>>

\* replay resumes from a send: the next send, or the end of the loop and
\* watch's wait_closed
replay(c) ==
    /\ pc[c] = "replay" /\ open[c]
    /\ IF sent[c] < Len(history[c])
       THEN LET move == history[c][sent[c] + 1]
            IN /\ inbox' = Send(inbox, c, PlayEvent(move[1], move[2], move[3], "replay"))
               /\ sent' = [sent EXCEPT ![c] = @ + 1]
               /\ UNCHANGED pc
       ELSE /\ pc' = [pc EXCEPT ![c] = "wait_closed"]
            /\ UNCHANGED <<inbox, sent>>
    /\ UNCHANGED <<JOIN, WATCH, game, connected, open, event, player, session,
                   history, attached, rejected>>
    /\ UNCHANGED <<unread, raised>>

\* the send of replay raises ConnectionClosed: the exception leaves watch
\* before its try statement is entered
replay_closed(c) ==
    /\ pc[c] = "replay" /\ ~open[c]
    /\ pc' = [pc EXCEPT ![c] = "done"]
    /\ UNCHANGED <<JOIN, WATCH, game, connected, open, event, player, session,
                   history, sent, inbox, attached, rejected>>
    /\ UNCHANGED <<unread, raised>>

\* wait_closed returns: watch's finally
watch_finally(c) ==
    /\ pc[c] = "wait_closed" /\ ~open[c]
    /\ connected' = [connected EXCEPT ![session[c]] = @ \ {c}]
    /\ pc' = [pc EXCEPT ![c] = "done"]
    /\ UNCHANGED <<JOIN, WATCH, game, open, event, player, session,
                   history, sent, inbox, attached, rejected>>
    /\ UNCHANGED <<unread, raised>>

\* ---- play: one iteration of the loop, for the message {"column": column} ----

\* a play that broadcasts the error of a rejected request to the group
play_error_broadcast(c, column) ==
    /\ pc[c] = "play" /\ open[c]
    /\ LET s == session[c]
           r == EnginePlay(game[s], player[c], column)
       IN IF ~r.ok
          THEN /\ rejected < MaxRejected
               /\ rejected' = rejected + 1
               /\ inbox' = Broadcast(inbox, connected[s], ErrorEvent(r.message))
               /\ UNCHANGED game
          ELSE /\ game' = [game EXCEPT ![s] = r.game]
               /\ inbox' = Broadcast(inbox, connected[s],
                                     MoveEvent(r.game, player[c], column, r.row))
               /\ UNCHANGED rejected
    /\ UNCHANGED <<JOIN, WATCH, connected, pc, open, event, player, session,
                   history, sent, attached>>
    /\ UNCHANGED <<unread, raised>>

\* a play whose rejected request closes the connection (the error of the
\* engine is not caught and ends the handler)
play_reject_fatal(c, column) ==
    /\ pc[c] = "play" /\ open[c]
    /\ LET s == session[c]
           r == EnginePlay(game[s], player[c], column)
       IN IF ~r.ok
          THEN /\ rejected < MaxRejected
               /\ rejected' = rejected + 1
               /\ inbox' = Send(inbox, c, ErrorEvent(r.message))
               /\ open' = [open EXCEPT ![c] = FALSE]
               /\ UNCHANGED game
          ELSE /\ game' = [game EXCEPT ![s] = r.game]
               /\ inbox' = Broadcast(inbox, connected[s],
                                     MoveEvent(r.game, player[c], column, r.row))
               /\ UNCHANGED <<rejected, open>>
    /\ UNCHANGED <<JOIN, WATCH, connected, pc, event, player, session,
                   history, sent, attached>>
    /\ UNCHANGED <<unread, raised>>

\* a play that announces the winner again when a request arrives after the
\* game is over
play_rebroadcasts_win(c, column) ==
    /\ pc[c] = "play" /\ open[c]
    /\ LET s == session[c]
           r == EnginePlay(game[s], player[c], column)
       IN IF ~r.ok
          THEN /\ rejected < MaxRejected
               /\ rejected' = rejected + 1
               /\ inbox' = IF game[s].winner # None
                           THEN Broadcast(inbox, connected[s], WinEvent(game[s].winner))
                           ELSE Send(inbox, c, ErrorEvent(r.message))
               /\ UNCHANGED game
          ELSE /\ game' = [game EXCEPT ![s] = r.game]
               /\ inbox' = Broadcast(inbox, connected[s],
                                     MoveEvent(r.game, player[c], column, r.row))
               /\ UNCHANGED rejected
    /\ UNCHANGED <<JOIN, WATCH, connected, pc, open, event, player, session,
                   history, sent, attached>>
    /\ UNCHANGED <<unread, raised>>

play(c, column) ==
    /\ pc[c] = "play" /\ open[c]
    /\ LET s == session[c]
           r == EnginePlay(game[s], player[c], column)
       IN IF ~r.ok
          THEN /\ rejected < MaxRejected
               /\ rejected' = rejected + 1
               /\ inbox' = Send(inbox, c, ErrorEvent(r.message))
               /\ UNCHANGED game
          ELSE /\ game' = [game EXCEPT ![s] = r.game]
               /\ inbox' = Broadcast(inbox, connected[s],
                                     MoveEvent(r.game, player[c], column, r.row))
               /\ UNCHANGED rejected
    /\ UNCHANGED <<JOIN, WATCH, connected, pc, open, event, player, session,
                   history, sent, attached>>
    /\ UNCHANGED <<unread, raised>>

\* ---- the transport of a connection closes (the client leaves) ----

disconnect(c) ==
    /\ pc[c] \notin {"recv", "done"} /\ open[c]
    /\ open' = [open EXCEPT ![c] = FALSE]
    /\ UNCHANGED <<JOIN, WATCH, game, connected, pc, event, player, session,
                   history, sent, inbox, attached, rejected>>
    /\ UNCHANGED <<unread, raised>>

\* the connection closes before its first message: handler's recv raises
\* ConnectionClosed and the task ends before any dispatch
handler_closed(c) ==
    /\ Next_recv(c)
    /\ open' = [open EXCEPT ![c] = FALSE]
    /\ pc' = [pc EXCEPT ![c] = "done"]
    /\ UNCHANGED <<JOIN, WATCH, game, connected, event, player, session,
                   history, sent, inbox, attached, rejected>>
    /\ UNCHANGED <<unread, raised>>

\* ---- messages that are no well-formed request ----

\* handler: the first message is not of type "init", so the assert fails
\* and the task ends before any dispatch
handler_malformed(c) ==
    /\ Next_recv(c)
    /\ event' = [event EXCEPT ![c] = [type |-> "bad"]]
    /\ raised' = [raised EXCEPT ![c] = "AssertionError"]
    /\ pc' = [pc EXCEPT ![c] = "done"]
    /\ open' = [open EXCEPT ![c] = FALSE]
    /\ UNCHANGED <<JOIN, WATCH, game, connected, player, session,
                   history, sent, inbox, attached, rejected, unread>>

\* a play that reports the malformed message to the group before it ends
play_malformed_reported(c) ==
    /\ pc[c] = "play" /\ open[c]
    /\ raised' = [raised EXCEPT ![c] = "KeyError"]
    /\ inbox' = Broadcast(inbox, connected[session[c]], ErrorEvent("Malformed message."))
    /\ IF player[c] = PLAYER1
       THEN /\ JOIN' = [k \in DOMAIN JOIN \ {JoinKey(c)} |-> JOIN[k]]
            /\ UNCHANGED connected
       ELSE /\ connected' = [connected EXCEPT ![session[c]] = @ \ {c}]
            /\ UNCHANGED JOIN
    /\ pc' = [pc EXCEPT ![c] = "done"]
    /\ open' = [open EXCEPT ![c] = FALSE]
    /\ UNCHANGED <<WATCH, game, event, player, session,
                   history, sent, attached, rejected, unread>>

\* play: a message without "column" raises KeyError, which is no
\* RuntimeError: it leaves the loop through the finally of start or of join
play_malformed(c) ==
    /\ pc[c] = "play" /\ open[c]
    /\ raised' = [raised EXCEPT ![c] = "KeyError"]
    /\ IF player[c] = PLAYER1
       THEN /\ JOIN' = [k \in DOMAIN JOIN \ {JoinKey(c)} |-> JOIN[k]]
            /\ UNCHANGED connected
       ELSE /\ connected' = [connected EXCEPT ![session[c]] = @ \ {c}]
            /\ UNCHANGED JOIN
    /\ pc' = [pc EXCEPT ![c] = "done"]
    /\ open' = [open EXCEPT ![c] = FALSE]
    /\ UNCHANGED <<WATCH, game, event, player, session,
                   history, sent, inbox, attached, rejected, unread>>

\* a watch that reads the messages of the spectator as move requests
spectator_message_played(c) ==
    /\ pc[c] \in {"replay", "wait_closed"} /\ open[c]
    /\ unread[c] < MaxUnread
    /\ unread' = [unread EXCEPT ![c] = @ + 1]
    /\ \E column \in Cols :
          LET s == session[c]
              r == EnginePlay(game[s], last_player(game[s]), column)
          IN IF ~r.ok
             THEN /\ inbox' = Send(inbox, c, ErrorEvent(r.message))
                  /\ UNCHANGED game
             ELSE /\ game' = [game EXCEPT ![s] = r.game]
                  /\ inbox' = Broadcast(inbox, connected[s],
                                        MoveEvent(r.game, last_player(game[s]), column, r.row))
    /\ UNCHANGED <<JOIN, WATCH, connected, pc, open, event, player, session,
                   history, sent, attached, rejected, raised>>

\* watch: a spectator sends a message; replay and wait_closed never read it
spectator_message(c) ==
    /\ pc[c] \in {"replay", "wait_closed"} /\ open[c]
    /\ unread[c] < MaxUnread
    /\ unread' = [unread EXCEPT ![c] = @ + 1]
    /\ UNCHANGED <<JOIN, WATCH, game, connected, pc, open, event, player, session,
                   history, sent, inbox, attached, rejected, raised>>

Next ==
    \/ \E c \in Conns : start(c)
    \/ \E c \in Conns : start_finally(c)
    \/ \E c \in Conns, k \in Keys : join(c, k)
    \/ \E c \in Conns : join_finally(c)
    \/ \E c \in Conns, k \in Keys : watch(c, k)
    \/ \E c \in Conns : replay(c)
    \/ \E c \in Conns : replay_closed(c)
    \/ \E c \in Conns : watch_finally(c)
    \/ \E c \in Conns, column \in 0..Columns : play(c, column)
    \/ \E c \in Conns : disconnect(c)
    \/ \E c \in Conns : handler_closed(c)
    \/ \E c \in Conns : handler_malformed(c)
    \/ \E c \in Conns : play_malformed(c)
    \/ \E c \in Conns : spectator_message(c)

Spec == Init /\ [][Next]_vars

\* ---- what the properties speak about ----

Sessions == DOMAIN game

\* c is in the group of session s, its websocket is open and its task runs
Attached(c, s) == c \in connected[s] /\ session[c] = s /\ open[c] /\ pc[c] # "done"

IsGameEvent(e) == e.type \in {"play", "win"}
IsLive(e) == IsGameEvent(e) /\ e.via = "live"
IsReplay(e) == IsGameEvent(e) /\ e.via = "replay"

\* the play and win events connection c received, in order of receipt
GameEvents(c) == SelectSeq(inbox[c], IsGameEvent)
LiveEvents(c) == SelectSeq(inbox[c], IsLive)
ReplayEvents(c) == SelectSeq(inbox[c], IsReplay)

\* the event that stands for move i of the history of session s: the winning
\* move is the last one of a won game
ExpectedLive(s, i) ==
    LET move == game[s].moves[i]
    IN IF game[s].winner # None /\ i = Len(game[s].moves)
       THEN [type |-> "win", player |-> game[s].winner, via |-> "live"]
       ELSE [type |-> "play", player |-> move[1], column |-> move[2], row |-> move[3], via |-> "live"]

ExpectedReplay(s, i) ==
    LET move == game[s].moves[i]
    IN [type |-> "play", player |-> move[1], column |-> move[2], row |-> move[3], via |-> "replay"]

\* the live events of the moves from..to of session s
ExpectedLiveSeq(s, from, to) == [i \in 1..(to - from + 1) |-> ExpectedLive(s, from + i - 1)]

IsSpectator(c) == "watch" \in DOMAIN event[c] /\ pc[c] \in {"replay", "wait_closed"}

\* C1: once a session's game is won, every connection that was attached
\* before the first move and is still connected has received one play event
\* per non-winning move, in history order, then exactly one win event, and
\* no play event for the winning move.
C1_WonGameStream ==
    \A s \in Sessions : \A c \in Conns :
        (game[s].winner # None /\ Attached(c, s) /\ attached[c] = 0)
            => LET n == Len(game[s].moves)
               IN /\ GameEvents(c) = ExpectedLiveSeq(s, 1, n)
                  /\ \A i \in 1..(n - 1) : GameEvents(c)[i].type = "play"
                  /\ GameEvents(c)[n] = [type |-> "win", player |-> game[s].winner, via |-> "live"]

C1_Witness ==
    \E s \in Sessions :
        /\ game[s].winner # None
        /\ Attached(s, s)
        /\ \E c \in Conns : Attached(c, s) /\ player[c] = PLAYER2 /\ attached[c] = 0
        /\ \E c \in Conns : Attached(c, s) /\ IsSpectator(c) /\ attached[c] = 0

\* C2: a spectator receives all its replay events before any live event: in
\* its stream no live play or win event precedes a replay event.
C2_ReplayBeforeLive ==
    \A c \in Conns :
        IsSpectator(c) =>
            \A i, j \in 1..Len(inbox[c]) :
                (i < j /\ IsLive(inbox[c][i])) => ~IsReplay(inbox[c][j])

\* C3: for a spectator that attached when the history held N moves and is
\* still connected, the replay is the first N moves in history order (the
\* part of it sent so far, all of it once the replay has ended), and the
\* live events are those of the moves N+1.. of the history, each once, so
\* that replayed and live events together cover every move exactly once.
C3_ReplayThenLiveExact ==
    \A c \in Conns :
        (IsSpectator(c) /\ Attached(c, session[c])) =>
            LET s == session[c]
                N == attached[c]
            IN /\ N <= Len(game[s].moves)
               /\ history[c] = SubSeq(game[s].moves, 1, N)
               /\ ReplayEvents(c) = [i \in 1..sent[c] |-> ExpectedReplay(s, i)]
               /\ sent[c] <= N
               /\ pc[c] = "wait_closed" => sent[c] = N
               /\ LiveEvents(c) = ExpectedLiveSeq(s, N + 1, Len(game[s].moves))
               /\ Len(GameEvents(c)) = sent[c] + Len(game[s].moves) - N

C3_Witness ==
    \E c \in Conns :
        /\ IsSpectator(c) /\ Attached(c, session[c])
        /\ pc[c] = "wait_closed"
        /\ attached[c] >= 1
        /\ Len(game[session[c]].moves) > attached[c]

\* C10: every connection that is attached to a session has received the
\* live events of the moves accepted since it attached, in the order of the
\* engine history, whichever player issued them.
C10_LiveOrder ==
    \A s \in Sessions : \A c \in Conns :
        Attached(c, s) =>
            LiveEvents(c) = ExpectedLiveSeq(s, attached[c] + 1, Len(game[s].moves))

C10_Witness ==
    \E s \in Sessions : \E c \in Conns :
        /\ Attached(c, s) /\ c # s
        /\ Len(game[s].moves) >= 3
        /\ Len(LiveEvents(c)) >= 2
        /\ \E i \in 1..(Len(game[s].moves) - 1) :
               game[s].moves[i][1] # game[s].moves[i + 1][1]

\* ---- the first message of a connection ----

\* connection c takes the step in which handler dispatches its first message
Dispatches(c) == pc[c] = "recv" /\ event'[c] # event[c]
JoinsWith(c, k) == Dispatches(c) /\ "join" \in DOMAIN event'[c] /\ event'[c].join = k
WatchesWith(c, k) == Dispatches(c) /\ "watch" \in DOMAIN event'[c] /\ event'[c].watch = k

NotFound == [type |-> "error", message |-> "Game not found."]

\* the session state: both tables, every group, every engine
SessionState == <<JOIN, WATCH, connected, game>>

\* C4: once the creator of session s has disconnected and its task has
\* ended, a join request with the join key of s is answered by the error
\* "Game not found." and attaches nothing, and a watch request with the
\* watch key of s attaches the requester to the group of s.
C4_AfterCreatorLeft ==
    [][\A s \in Sessions : \A c \in Conns :
          pc[s] = "done" =>
              /\ JoinsWith(c, JoinKey(s)) =>
                     /\ inbox'[c] = <<NotFound>>
                     /\ pc'[c] = "done"
                     /\ connected' = connected
              /\ WatchesWith(c, WatchKey(s)) =>
                     /\ c \in connected'[s]
                     /\ session'[c] = s
                     /\ pc'[c] \in {"replay", "wait_closed"}
                     /\ \A i \in 1..Len(inbox'[c]) : inbox'[c][i].type # "error"]_vars

\* c is numbered after d, so its first message was handled after that of d
C4_Witness ==
    \E s \in Sessions : \E d, c \in Conns :
        /\ pc[s] = "done"
        /\ "join" \in DOMAIN event[d] /\ event[d].join = JoinKey(s)
        /\ inbox[d] = <<NotFound>>
        /\ d < c
        /\ "watch" \in DOMAIN event[c] /\ event[c].watch = WatchKey(s)
        /\ Attached(c, s)

\* C5: a join request whose key is not in JOIN, or a watch request whose key
\* is not in WATCH, sends exactly one error event to the requester and ends
\* its task; the tables, the groups, the engines and the streams of all
\* other connections stay as they were.
C5_UnknownKey ==
    [][\A c \in Conns : \A k \in Keys \cup {JoinKey(d) : d \in Conns} \cup {WatchKey(d) : d \in Conns} :
          (\/ JoinsWith(c, k) /\ k \notin DOMAIN JOIN
           \/ WatchesWith(c, k) /\ k \notin DOMAIN WATCH)
              => /\ inbox'[c] = Append(inbox[c], NotFound)
                 /\ Len(inbox'[c]) = 1
                 /\ \A d \in Conns \ {c} : inbox'[d] = inbox[d]
                 /\ SessionState' = SessionState
                 /\ pc'[c] = "done"]_vars

C5_Witness ==
    \E c, d \in Conns :
        /\ "join" \in DOMAIN event[c] /\ event[c].join \notin DOMAIN JOIN
        /\ inbox[c] = <<NotFound>> /\ pc[c] = "done"
        /\ "watch" \in DOMAIN event[d] /\ event[d].watch \notin DOMAIN WATCH
        /\ inbox[d] = <<NotFound>> /\ pc[d] = "done"
        /\ \E s \in Sessions : connected[s] # {}

\* ---- move requests ----

\* C6: when the engine rejects the move request of connection c, exactly one
\* error event is sent to c, no event is sent to any other connection, and
\* no engine history changes.
C6_RejectedMove ==
    [][\A c \in Conns : \A column \in 0..Columns :
          (play(c, column) /\ ~EnginePlay(game[session[c]], player[c], column).ok)
              => /\ Len(inbox'[c]) = Len(inbox[c]) + 1
                 /\ SubSeq(inbox'[c], 1, Len(inbox[c])) = inbox[c]
                 /\ inbox'[c][Len(inbox'[c])].type = "error"
                 /\ \A d \in Conns \ {c} : inbox'[d] = inbox[d]
                 /\ game' = game]_vars

\* a rejected request has been answered while two other members were attached
C6_Witness ==
    \E s \in Sessions : \E c \in Conns :
        /\ rejected > 0
        /\ Attached(c, s)
        /\ Len(inbox[c]) > 0 /\ inbox[c][Len(inbox[c])].type = "error"
        /\ Cardinality({d \in Conns \ {c} : Attached(d, s)}) >= 2
        /\ Len(game[s].moves) >= 1

\* ---- membership of the groups ----

\* C7: every group contains only connections whose task is still running.
C7_GroupsHoldRunningTasks ==
    \A s \in Sessions : \A c \in connected[s] : pc[c] # "done"

\* C8: while the creator of session s is connected, every join request with
\* the join key of s attaches the requester to the group of s as second
\* player and enters the relay loop without any error event, also when
\* another second player is attached already.
C8_EveryJoinAttaches ==
    [][\A s \in Sessions : \A c \in Conns :
          (JoinsWith(c, JoinKey(s)) /\ Attached(s, s))
              => /\ connected'[s] = connected[s] \cup {c}
                 /\ player'[c] = PLAYER2
                 /\ pc'[c] = "play"
                 /\ session'[c] = s
                 /\ inbox'[c] = <<>>]_vars

C8_Witness ==
    \E s \in Sessions : \E c, d \in Conns :
        /\ c # d
        /\ Attached(s, s)
        /\ Attached(c, s) /\ player[c] = PLAYER2 /\ pc[c] = "play"
        /\ Attached(d, s) /\ player[d] = PLAYER2 /\ pc[d] = "play"

\* the connections of the group of s whose task is in the relay loop
Playing(s) == {c \in connected[s] : pc[c] = "play"}

\* C9: every session has at most two playing connections attached, its
\* creator and at most one second player.
C9_AtMostTwoPlayers ==
    \A s \in Sessions :
        /\ Cardinality(Playing(s)) <= 2
        /\ Cardinality({c \in Playing(s) : player[c] = PLAYER2}) <= 1

\* ---- the end of a task ----

\* the task of connection c ends in this step
TaskEnds(c) == pc[c] # "done" /\ pc'[c] = "done"

\* c entered the group of a session through join or watch
JoinedOrWatching(c) == session[c] # 0 /\ player[c] # PLAYER1

\* C11: the step that ends the task of a second player or of a spectator
\* removes exactly that connection from the group of its session and leaves
\* JOIN, WATCH, the engines and the membership of all others as they were.
C11_LeaverIsRemoved ==
    [][\A c \in Conns :
          (TaskEnds(c) /\ JoinedOrWatching(c))
              => /\ c \notin connected'[session[c]]
                 /\ connected' = [connected EXCEPT ![session[c]] = @ \ {c}]
                 /\ UNCHANGED <<JOIN, WATCH, game>>]_vars

\* C12: the step that ends the task of the creator of a session removes the
\* join key of the session from JOIN and leaves WATCH, the engines, the
\* groups and the tasks, websockets and streams of all other connections as
\* they were; every move accepted after that step is still broadcast to
\* every attached member.
C12_CreatorLeaves ==
    [][/\ \A c \in Conns :
             (TaskEnds(c) /\ player[c] = PLAYER1)
                 => /\ JoinKey(c) \in DOMAIN JOIN /\ JoinKey(c) \notin DOMAIN JOIN'
                    /\ \A k \in DOMAIN JOIN \ {JoinKey(c)} : k \in DOMAIN JOIN' /\ JOIN'[k] = JOIN[k]
                    /\ UNCHANGED <<WATCH, game, connected, inbox>>
                    /\ \A d \in Conns \ {c} : pc'[d] = pc[d] /\ open'[d] = open[d]
       /\ \A s \in Sessions :
             (pc[s] = "done" /\ game'[s] # game[s])
                 => LET n == Len(game'[s].moves)
                        move == game'[s].moves[n]
                    IN /\ n = Len(game[s].moves) + 1
                       /\ \A d \in Conns :
                             Attached(d, s) =>
                                 /\ Len(inbox'[d]) = Len(inbox[d]) + 1
                                 /\ SubSeq(inbox'[d], 1, Len(inbox[d])) = inbox[d]
                                 /\ IsLive(inbox'[d][Len(inbox'[d])])
                                 /\ inbox'[d][Len(inbox'[d])].player = move[1]]_vars

\* the creator is gone, the other two members hold a move it did not get
C12_Witness ==
    \E s \in Sessions :
        /\ pc[s] = "done"
        /\ JoinKey(s) \notin DOMAIN JOIN
        /\ WatchKey(s) \in DOMAIN WATCH
        /\ Len(LiveEvents(s)) < Len(game[s].moves)
        /\ \E c, d \in Conns :
              /\ Attached(c, s) /\ player[c] = PLAYER2
              /\ Attached(d, s) /\ IsSpectator(d)
              /\ Len(LiveEvents(c)) = Len(game[s].moves) - attached[c]
              /\ Len(LiveEvents(d)) = Len(game[s].moves) - attached[d]
              /\ Len(LiveEvents(c)) > Len(LiveEvents(s))

\* C13: in every state the join key of a session is in JOIN exactly as long
\* as the task of the creator has not ended, whoever else is attached and
\* whether or not the game is over; the key leaves JOIN only in the step
\* that ends the creator's task, and never comes back.
C13_JoinKeyLifetime ==
    /\ [](\A s \in Sessions : JoinKey(s) \in DOMAIN JOIN <=> pc[s] # "done")
    /\ [][\A s \in Sessions :
             /\ (JoinKey(s) \in DOMAIN JOIN /\ JoinKey(s) \notin DOMAIN JOIN') => TaskEnds(s)
             /\ JoinKey(s) \notin DOMAIN JOIN => JoinKey(s) \notin DOMAIN JOIN']_vars

\* the game is won and a second player is attached, the key is still there
C13_Witness ==
    \E s \in Sessions :
        /\ game[s].winner # None
        /\ Attached(s, s)
        /\ \E c \in Conns : Attached(c, s) /\ player[c] = PLAYER2
        /\ JoinKey(s) \in DOMAIN JOIN /\ JOIN[JoinKey(s)] = s

\* connection c has had a move request rejected by the engine
WasRejected(c) ==
    \E i \in 1..Len(inbox[c]) :
        inbox[c][i].type = "error" /\ inbox[c][i].message # "Game not found."

\* C14: the step that rejects a move request leaves the requester attached,
\* open and in its relay loop, and a legal move request of a connection that
\* was rejected before is recorded by the engine and broadcast to every
\* attached member of the group.
C14_PlayableAfterReject ==
    [][\A c \in Conns : \A column \in 0..Columns :
          LET s == session[c]
              r == EnginePlay(game[s], player[c], column)
          IN /\ (play(c, column) /\ ~r.ok)
                    => /\ pc'[c] = "play" /\ open'[c]
                       /\ c \in connected'[s]
                       /\ WasRejected(c)'
             /\ (pc[c] = "play" /\ open[c] /\ WasRejected(c) /\ r.ok /\ play(c, column))
                    => /\ game'[s].moves = Append(game[s].moves, <<player[c], column, r.row>>)
                       /\ \A d \in Conns :
                             Attached(d, s) =>
                                 /\ Len(inbox'[d]) = Len(inbox[d]) + 1
                                 /\ SubSeq(inbox'[d], 1, Len(inbox[d])) = inbox[d]
                                 /\ IsLive(inbox'[d][Len(inbox'[d])])
                                 /\ inbox'[d][Len(inbox'[d])].player = player[c]]_vars

\* the creator was rejected and then made a move that two others received
C14_Witness ==
    \E s \in Sessions : \E i, j \in 1..Len(inbox[s]) :
        /\ Attached(s, s)
        /\ i < j
        /\ inbox[s][i].type = "error"
        /\ IsLive(inbox[s][j]) /\ inbox[s][j].player = PLAYER1
        /\ Cardinality({d \in Conns \ {s} : Attached(d, s)
                           /\ Len(LiveEvents(d)) = Len(game[s].moves) - attached[d]
                           /\ Len(LiveEvents(d)) > 0}) >= 2

\* C15: a move accepted while some member of the group is not open any more
\* is still delivered to every open member of the group, the closed members
\* get nothing, and the task of the player that issued it stays in its relay
\* loop with its websocket open.
C15_BroadcastSkipsClosed ==
    [][\A s \in Sessions : \A c \in Conns :
          (/\ pc[c] = "play" /\ open[c] /\ session[c] = s
           /\ \E d \in connected[s] : ~open[d]
           /\ game'[s] # game[s]
           /\ \E column \in Cols : play(c, column))
              => /\ \A d \in connected[s] :
                       IF open[d]
                       THEN /\ Len(inbox'[d]) = Len(inbox[d]) + 1
                            /\ SubSeq(inbox'[d], 1, Len(inbox[d])) = inbox[d]
                            /\ IsLive(inbox'[d][Len(inbox'[d])])
                       ELSE inbox'[d] = inbox[d]
                 /\ pc'[c] = "play" /\ open'[c]
                 /\ c \in connected'[s]]_vars

\* a member is closed and lacks a move that two open members received
C15_Witness ==
    \E s \in Sessions : \E d \in connected[s] :
        /\ ~open[d]
        /\ Len(LiveEvents(d)) < Len(game[s].moves) - attached[d]
        /\ Cardinality({c \in Conns : Attached(c, s)
                           /\ Len(LiveEvents(c)) = Len(game[s].moves) - attached[c]
                           /\ Len(LiveEvents(c)) > 0}) >= 2

\* C16: a task that has ended after its connection was attached to a session
\* has run its cleanup: the creator's join key is out of JOIN, a second
\* player or spectator is out of the group of its session.
C16_EndedTaskCleanedUp ==
    \A c \in Conns :
        (pc[c] = "done" /\ session[c] # 0) =>
            IF player[c] = PLAYER1
            THEN JoinKey(c) \notin DOMAIN JOIN
            ELSE c \notin connected[session[c]]

\* C17: the step in which a malformed message raises in the task of
\* connection c ends that task and no other, sends no event to anybody,
\* creates no session and changes nothing but what the cleanup of c
\* changes: nothing for a first message, the join key for the creator, the
\* membership of c for a second player.
C17_MalformedEndsSenderOnly ==
    [][\A c \in Conns :
          raised'[c] # raised[c]
              => /\ pc'[c] = "done"
                 /\ \A d \in Conns \ {c} : pc'[d] = pc[d] /\ open'[d] = open[d]
                 /\ UNCHANGED <<inbox, game, WATCH>>
                 /\ IF pc[c] = "recv"
                    THEN UNCHANGED <<JOIN, connected>>
                    ELSE IF player[c] = PLAYER1
                    THEN /\ DOMAIN JOIN' = DOMAIN JOIN \ {JoinKey(c)}
                         /\ \A k \in DOMAIN JOIN' : JOIN'[k] = JOIN[k]
                         /\ UNCHANGED connected
                    ELSE /\ connected' = [connected EXCEPT ![session[c]] = @ \ {c}]
                         /\ UNCHANGED JOIN]_vars

\* a malformed first message and a malformed move message of a second player
\* have been handled while the creator stays attached to a game under way
C17_Witness ==
    \E s \in Sessions : \E c, d \in Conns :
        /\ raised[c] = "AssertionError" /\ pc[c] = "done" /\ inbox[c] = <<>>
        /\ raised[d] = "KeyError" /\ pc[d] = "done" /\ player[d] = PLAYER2
        /\ session[d] = s /\ d \notin connected[s]
        /\ Attached(s, s)
        /\ Len(game[s].moves) >= 1

\* C18: the step in which a spectator sends a message changes neither JOIN,
\* WATCH, any engine or group nor the stream or the task of any connection:
\* the message only stays unread.
C18_SpectatorMessagesIgnored ==
    [][\A c \in Conns :
          unread'[c] # unread[c]
              => /\ IsSpectator(c)
                 /\ UNCHANGED <<JOIN, WATCH, game, connected, inbox, pc, open>>]_vars

\* a spectator has sent a message and the game went on for everybody
C18_Witness ==
    \E s \in Sessions : \E c \in Conns :
        /\ IsSpectator(c) /\ Attached(c, s)
        /\ unread[c] > 0
        /\ Len(game[s].moves) > attached[c]
        /\ Len(LiveEvents(c)) = Len(game[s].moves) - attached[c]

\* C19: once the game of a session is won, no step changes its engine or
\* adds a live play or win event to the stream of any connection of the
\* session, and every move request of a player is answered by one error
\* event to the requester and nothing to anybody else.
C19_NothingAfterWin ==
    [][\A s \in Sessions :
          game[s].winner # None
              => /\ game'[s] = game[s]
                 /\ \A d \in Conns :
                       session[d] = s =>
                           SelectSeq(inbox'[d], IsLive) = SelectSeq(inbox[d], IsLive)
                 /\ \A c \in Conns : \A column \in 0..Columns :
                       (session[c] = s /\ play(c, column))
                           => /\ Len(inbox'[c]) = Len(inbox[c]) + 1
                              /\ inbox'[c][Len(inbox'[c])].type = "error"
                              /\ \A d \in Conns \ {c} : inbox'[d] = inbox[d]]_vars

\* a player asked for a move after it received the win event
C19_Witness ==
    \E s \in Sessions : \E c \in Conns : \E i \in 1..Len(inbox[c]) :
        /\ game[s].winner # None
        /\ Attached(c, s)
        /\ inbox[c][i].type = "win"
        /\ i < Len(inbox[c])
        /\ inbox[c][Len(inbox[c])].type = "error"
        /\ \E d \in Conns \ {c} :
              Attached(d, s) /\ inbox[d] # <<>> /\ inbox[d][Len(inbox[d])].type = "win"

\* c is a spectator that entered the group of s after the game was won
WatchesWonGame(c, s) ==
    /\ IsSpectator(c) /\ session[c] = s
    /\ game[s].winner # None
    /\ attached[c] = Len(game[s].moves)

\* C20: a spectator that attached after the game was won receives play
\* events only, never a win event; once its replay has ended it holds one
\* play event per move of the history, the winning move included, in
\* history order, which is not the stream of any connection that was
\* attached during the whole game.
C20_LateSpectatorSeesNoWin ==
    \A s \in Sessions : \A c \in Conns :
        WatchesWonGame(c, s) =>
            /\ \A i \in 1..Len(GameEvents(c)) : GameEvents(c)[i].type = "play"
            /\ pc[c] = "wait_closed" =>
                   LET n == Len(game[s].moves)
                   IN /\ GameEvents(c) = [i \in 1..n |-> ExpectedReplay(s, i)]
                      /\ GameEvents(c)[n].player = game[s].winner
                      /\ \A d \in Conns :
                            (Attached(d, s) /\ attached[d] = 0 /\ ~WatchesWonGame(d, s))
                                => /\ [i \in 1..Len(GameEvents(d)) |-> GameEvents(d)[i].type]
                                          # [i \in 1..n |-> GameEvents(c)[i].type]
                                   /\ GameEvents(d)[n].type = "win"

C20_Witness ==
    \E s \in Sessions : \E c, d \in Conns :
        /\ WatchesWonGame(c, s) /\ pc[c] = "wait_closed" /\ open[c]
        /\ Len(GameEvents(c)) = Len(game[s].moves)
        /\ Attached(d, s) /\ attached[d] = 0 /\ ~WatchesWonGame(d, s)
        /\ Len(GameEvents(d)) = Len(game[s].moves)

====
